---- MODULE Spec2Model ----
(***************************************************************************)
(* Model of the link-preview metadata pipeline of the app catalogue:       *)
(* MicrolinkService (getUrlMetadata, the two providers, the synthesized    *)
(* fallback, the localStorage cache) in services/app.service.ts.           *)
(*                                                                         *)
(* Conventions.  A JavaScript value that may be undefined is a sequence of *)
(* length at most one: << >> is undefined, <<v>> is the value v.  A        *)
(* JavaScript object is a function from its own property names to such     *)
(* values.  A string whose characters matter (a URL, a title, a storage    *)
(* key) is the sequence of its UTF-16 code units; other strings are TLA+   *)
(* strings.  Time is Date.now(), in milliseconds.                          *)
(***************************************************************************)
EXTENDS Integers, Sequences, FiniteSets, Bags, TLC

\* ------------------------------------------------------------------ bounds
MaxDays == 1
MaxInFlight == 1
MaxListed == 3
MaxApps == 6
MaxPreviews == 1
MaxRequests == 2
MaxBatch == 2

\* --------------------------------------------------------------- constants
\* 24 * 60 * 60 * 1000 in cacheMetadata
TTL == 24 * 60 * 60 * 1000

\* "http://Aa", "http://BB", "http://c": the first two have the same hashUrl
UrlA == <<104, 116, 116, 112, 58, 47, 47, 65, 97>>
UrlB == <<104, 116, 116, 112, 58, 47, 47, 66, 66>>
UrlC == <<104, 116, 116, 112, 58, 47, 47, 99>>
Urls == {UrlA, UrlB, UrlC}

\* the instants at which the clock is observed: every multiple of TTL and the
\* millisecond after it
Instants == {k * TTL + e : k \in 0..MaxDays, e \in {0, 1}}

\* ------------------------------------------------------- JavaScript values
Undefined == << >>
Some(v) == <<v>>

\* property read o.f : undefined when o has no own property f
Get(o, f) == IF f \in DOMAIN o THEN o[f] ELSE Undefined

\* a || b for optional strings: undefined and the empty string are falsy
JsOr(a, b) == IF a # Undefined /\ a[1] # "" THEN a ELSE b

\* a || b for optional strings kept as code units
JsOrChars(a, b) == IF a # Undefined /\ a[1] # << >> THEN a ELSE b

\* ------------------------------------------------------------------ hashUrl
\* A 32-bit word is kept as <<high 16 bits, low 16 bits>>.
\* ((hash << 5) - hash) + char, then hash & hash : 31 * hash + char mod 2^32
HashStep(h, ch) ==
  LET lo == 31 * h[2] + ch
      hi == 31 * h[1] + (lo \div 65536)
  IN  <<hi % 65536, lo % 65536>>

RECURSIVE HashFrom(_, _, _)
HashFrom(h, url, i) ==
  IF i > Len(url) THEN h ELSE HashFrom(HashStep(h, url[i]), url, i + 1)

\* the signed value of a 32-bit word
ToInt32(h) == IF h[1] >= 32768 THEN (h[1] - 65536) * 65536 + h[2] ELSE h[1] * 65536 + h[2]

RECURSIVE ToString36(_)
\* Number.prototype.toString(36) of a non-negative integer, as digit values
ToString36(n) == IF n < 36 THEN <<n>> ELSE Append(ToString36(n \div 36), n % 36)

\* Math.abs(hash).toString(36); Math.abs(-2^31) = 2^31 is "zik0zk"
hashUrl(url) ==
  LET h == HashFrom(<<0, 0>>, url, 1)
      v == ToInt32(h)
  IN  IF h = <<32768, 0>> THEN <<35, 18, 20, 0, 35, 20>>
      ELSE ToString36(IF v < 0 THEN -v ELSE v)

\* `microlink_cache_${this.hashUrl(url)}`: every key of the model carries the
\* prefix, so a key is identified by the part after it
CacheKeyTable == [u \in Urls |-> hashUrl(u)]
CacheKey(url) == CacheKeyTable[url]

CacheKeys == {CacheKey(u) : u \in Urls}

\* ------------------------------------------------------------ MicrolinkData
MetaFields == {"url", "title", "description", "image", "logo", "screenshot",
               "author", "publisher", "date", "lang"}
ObjectFields == {"image", "logo", "screenshot"}
ImageProps == {"url", "width", "height"}

\* what a reader of a MicrolinkData object can observe: every property, with
\* a missing property and an undefined one both read as undefined
Norm(m) ==
  [f \in MetaFields |->
     IF f \in ObjectFields /\ Get(m, f) # Undefined
     THEN Some([p \in ImageProps |-> Get(Get(m, f)[1], p)])
     ELSE Get(m, f)]

SameMetadata(a, b) == Norm(a) = Norm(b)

\* -------------------------------------------------------- provider responses
\* A response body is null (<< >>) or an object.
Null == << >>

TitleP == <<80>>
TitleS == <<83>>

\* a Microlink body: { status, data: { ... } }
MicrolinkBody(url) ==
  Some([status |-> Some("success"),
        data |-> Some([url |-> Some(url),
                       title |-> Some(TitleP),
                       description |-> Some("primary description"),
                       image |-> Some([url |-> Some("https://img/p.png"),
                                       width |-> Some(400), height |-> Some(300)]),
                       screenshot |-> Some([url |-> Some("https://img/p-shot.png"),
                                            width |-> Some(1280), height |-> Some(720)]),
                       author |-> Some(""),
                       lang |-> Some("en")])])

\* a LinkPreview body: flat, image given as a string
LinkPreviewBody(url) ==
  Some([url |-> Some(url),
        title |-> Some(TitleS),
        description |-> Some("secondary description"),
        image |-> Some("https://img/s.png")])

MicrolinkBodies(url) == {MicrolinkBody(url), Null}
LinkPreviewBodies(url) == {LinkPreviewBody(url), Null}

\* reading a property of null throws a TypeError
TransformThrows(response) == response = Null

\* response.data?.f
DataProp(r, f) == IF Get(r, "data") = Undefined THEN Undefined ELSE Get(Get(r, "data")[1], f)

\* response.data?.f?.url ? { url, width, height } : undefined
DataImage(r, f) ==
  LET img == DataProp(r, f)
  IN  IF img # Undefined /\ Get(img[1], "url") # Undefined /\ Get(img[1], "url")[1] # ""
      THEN Some([url |-> Get(img[1], "url"),
                 width |-> Get(img[1], "width"),
                 height |-> Get(img[1], "height")])
      ELSE Undefined

transformMicrolinkResponse(response) ==
  LET r == response[1]
  IN  [url |-> JsOrChars(DataProp(r, "url"), Get(r, "url")),
       title |-> JsOrChars(DataProp(r, "title"), Get(r, "title")),
       description |-> JsOr(DataProp(r, "description"), Get(r, "description")),
       image |-> DataImage(r, "image"),
       logo |-> DataImage(r, "logo"),
       screenshot |-> DataImage(r, "screenshot"),
       author |-> JsOr(DataProp(r, "author"), Get(r, "author")),
       publisher |-> JsOr(DataProp(r, "publisher"), Get(r, "publisher")),
       date |-> JsOr(DataProp(r, "date"), Get(r, "date")),
       lang |-> JsOr(DataProp(r, "lang"), Get(r, "lang"))]

\* response.f ? { url: response.f, width: undefined, height: undefined } : undefined
PreviewImage(r, f) ==
  IF Get(r, f) # Undefined /\ Get(r, f)[1] # ""
  THEN Some([url |-> Get(r, f), width |-> Undefined, height |-> Undefined])
  ELSE Undefined

\* no screenshot property at all
transformLinkPreviewResponse(response) ==
  LET r == response[1]
  IN  [url |-> Get(r, "url"),
       title |-> Get(r, "title"),
       description |-> Get(r, "description"),
       image |-> PreviewImage(r, "image"),
       logo |-> PreviewImage(r, "logo"),
       author |-> Get(r, "author"),
       publisher |-> Get(r, "publisher"),
       date |-> Get(r, "date"),
       lang |-> Get(r, "lang")]

\* ----------------------------------------------------------------- fallback
\* "http://"
HttpPrefix == <<104, 116, 116, 112, 58, 47, 47>>
\* "www."
WwwDot == <<119, 119, 119, 46>>
\* 'Unknown Project'
UnknownProject == <<85, 110, 107, 110, 111, 119, 110, 32, 80, 114, 111, 106, 101, 99, 116>>

ToLower(s) == [i \in 1..Len(s) |-> IF s[i] \in 65..90 THEN s[i] + 32 ELSE s[i]]

SetMin(S) == CHOOSE x \in S : \A y \in S : x <= y

\* new URL(url) accepts the http URLs of the model: "http://" and a host
UrlParses(url) ==
  /\ Len(url) > Len(HttpPrefix)
  /\ SubSeq(url, 1, Len(HttpPrefix)) = HttpPrefix
  /\ url[Len(HttpPrefix) + 1] \notin {47, 63, 35, 58}

\* new URL(url).hostname: the lower-cased host, up to the first / ? # :
Hostname(url) ==
  LET rest == SubSeq(url, Len(HttpPrefix) + 1, Len(url))
      stops == {i \in 1..Len(rest) : rest[i] \in {47, 63, 35, 58}}
      last == IF stops = {} THEN Len(rest) ELSE SetMin(stops) - 1
  IN  ToLower(SubSeq(rest, 1, last))

\* s.replace(pat, ''): the first occurrence only
RemoveFirst(s, pat) ==
  LET at == {i \in 1..(Len(s) - Len(pat) + 1) : SubSeq(s, i, i + Len(pat) - 1) = pat}
  IN  IF at = {} THEN s
      ELSE SubSeq(s, 1, SetMin(at) - 1) \o SubSeq(s, SetMin(at) + Len(pat), Len(s))

extractDomainFromUrl(url) ==
  IF UrlParses(url) THEN RemoveFirst(Hostname(url), WwwDot) ELSE UnknownProject

getDefaultImageUrl == "https://via.placeholder.com/400x300/667eea/ffffff?text=Project+Screenshot"
getDefaultScreenshotUrl == "https://via.placeholder.com/1280x720/667eea/ffffff?text=Website+Screenshot"

getFallbackMetadata(url) ==
  [url |-> Some(url),
   title |-> Some(extractDomainFromUrl(url)),
   description |-> Some("No description available"),
   image |-> Some([url |-> Some(getDefaultImageUrl)]),
   screenshot |-> Some([url |-> Some(getDefaultScreenshotUrl),
                        width |-> Some(1280), height |-> Some(720)])]

\* --------------------------------------------------------------------- JSON
\* JSON.stringify drops every property whose value is undefined; the text is
\* kept as the object tree it denotes.
DropUndefined(o) == [k \in {k \in DOMAIN o : o[k] # Undefined} |-> o[k]]

StringifyMetadata(m) ==
  LET d == DropUndefined(m)
  IN  [k \in DOMAIN d |-> IF k \in ObjectFields THEN Some(DropUndefined(d[k][1])) ELSE d[k]]

\* JSON.stringify(cacheData)
StringifyCacheData(url, metadata, timestamp, expiresAt) ==
  [url |-> url, metadata |-> StringifyMetadata(metadata),
   timestamp |-> timestamp, expiresAt |-> expiresAt]

\* a stored string that JSON.parse rejects (left by an earlier page or script)
CorruptText == [corrupt |-> TRUE]

ParseThrows(text) == "corrupt" \in DOMAIN text

\* JSON.parse of a string written by StringifyCacheData
ParseCacheData(text) == text

\* ---------------------------------------------------------------------- App
\* The apps of the model: app i has a name, a description, a tech stack, tags,
\* a status and an update time that repeat with different periods, so that
\* lists have apps that share a status or an update time.
StatusOf(i) == IF i % 3 = 1 THEN "active" ELSE IF i % 3 = 2 THEN "in-progress" ELSE "archived"

\* "Go" / "TS", "Rust" / none
TechStackOf(i) ==
  IF i % 3 = 1 THEN << <<71, 111>> >>
  ELSE IF i % 3 = 2 THEN << <<84, 83>>, <<82, 117, 115, 116>> >>
  ELSE << >>

\* "web", "Poc" / "CLI"
TagsOf(i) == IF i % 2 = 1 THEN << <<119, 101, 98>>, <<80, 111, 99>> >> ELSE << <<67, 76, 73>> >>

AppOf(i) ==
  [id |-> i,
   \* "App", "Bpp", ...
   name |-> <<64 + i, 112, 112>>,
   \* "go tool" / "Web"
   description |-> IF i % 2 = 1 THEN <<103, 111, 32, 116, 111, 111, 108>> ELSE <<87, 101, 98>>,
   deployedUrl |-> IF i % 3 = 1 THEN UrlA ELSE IF i % 3 = 2 THEN UrlC ELSE UrlB,
   techStack |-> TechStackOf(i),
   tags |-> TagsOf(i),
   status |-> StatusOf(i),
   createdAt |-> 0,
   updatedAt |-> ((2 * i) % 3) * 1000,
   previewMetadata |-> Undefined]

\* the lists of at most n distinct apps among the first n
AppLists(n) ==
  {[k \in DOMAIN s |-> AppOf(s[k])] :
     s \in {t \in UNION {[1..m -> 1..n] : m \in 0..n} :
              \A a, b \in DOMAIN t : a # b => t[a] # t[b]}}

\* the search terms "", "GO", "cli", "zz"
SearchTerms == {<< >>, <<71, 79>>, <<99, 108, 105>>, <<122, 122>>}
\* the tech-stack criteria [] and ["RUST"]
TechCriteria == {<< >>, << <<82, 85, 83, 84>> >>}
\* the tag criteria [] and ["po"]
TagCriteria == {<< >>, << <<112, 111>> >>}
\* the status criteria [], ["active"], ["active", "archived"], ["done"]
StatusCriteria == {<< >>, <<"active">>, <<"active", "archived">>, <<"done">>}

AllFilters ==
  [searchTerm : SearchTerms, techStack : TechCriteria, tags : TagCriteria,
   status : StatusCriteria]

\* ---------------------------------------------------------- getFilteredApps
\* String.prototype.includes
Includes(s, pat) ==
  \E i \in 0..(Len(s) - Len(pat)) : SubSeq(s, i + 1, i + Len(pat)) = pat

\* array.some(predicate) over the elements of a sequence
Range(seq) == {seq[i] : i \in DOMAIN seq}

\* (mutant) the tags are not searched
MatchesSearch_notags(app, searchTerm) ==
  LET searchLower == ToLower(searchTerm)
  IN  \/ Includes(ToLower(app.name), searchLower)
      \/ Includes(ToLower(app.description), searchLower)
      \/ \E tech \in Range(app.techStack) : Includes(ToLower(tech), searchLower)

\* matchesSearch
MatchesSearch(app, searchTerm) ==
  LET searchLower == ToLower(searchTerm)
  IN  \/ Includes(ToLower(app.name), searchLower)
      \/ Includes(ToLower(app.description), searchLower)
      \/ \E tech \in Range(app.techStack) : Includes(ToLower(tech), searchLower)
      \/ \E tag \in Range(app.tags) : Includes(ToLower(tag), searchLower)

\* (mutant) the status criterion is ignored
MatchesStatus_ignored(app, status) == TRUE

\* filters.status.includes(app.status)
MatchesStatus(app, status) == app.status \in Range(status)

\* the callback of apps.filter
PassesFilters(app, f) ==
  /\ f.searchTerm # << >> => MatchesSearch(app, f.searchTerm)
  /\ Len(f.techStack) > 0 =>
       \E tech \in Range(f.techStack) : \E appTech \in Range(app.techStack) :
          Includes(ToLower(appTech), ToLower(tech))
  /\ Len(f.tags) > 0 =>
       \E tag \in Range(f.tags) : \E appTag \in Range(app.tags) :
          Includes(ToLower(appTag), ToLower(tag))
  /\ Len(f.status) > 0 => MatchesStatus(app, f.status)

getFilteredApps(list, f) ==
  LET Keep(app) == PassesFilters(app, f)
  IN  SelectSeq(list, Keep)

\* -------------------------------------------------------------------- state
VARIABLES
  now,            \* Date.now()
  storageDenied,  \* touching window.localStorage throws (storage disabled)
  storage,        \* localStorage: key -> << >> (no item) or <<text>>
  calls,          \* bag of the getUrlMetadata calls waiting for a provider
  lastStarted,    \* the getUrlMetadata call made by the step just taken
  lastRead,       \* the getCachedMetadata call made by the step just taken
  lastDelivered,  \* the getUrlMetadata call that the step just taken ended
  watched         \* a cacheMetadata that succeeded, while its 24 hours last

cacheVars == <<now, storageDenied, storage, calls, lastStarted, lastRead, lastDelivered, watched>>

VARIABLES
  apps,           \* AppService.appsSubject.value, the in-memory app list
  filters,        \* the AppFilters last given to getFilteredApps
  filteredApps,   \* what getFilteredApps returned
  stats           \* << >> or <<the DashboardStats last computed>>

listVars == <<apps, filters, filteredApps, stats>>

VARIABLES
  http,             \* the requests to the app API that wait for their response
  loading,          \* AppService.loadingSubject.value
  dashboardApps,    \* DashboardComponent.apps
  dashboardAliased, \* DashboardComponent.apps is the array appsSubject.value
  dashboardError,   \* DashboardComponent.error
  loadingPreviews,  \* DashboardComponent.loadingPreviews
  formError,        \* AppFormComponent.error
  lastEnded,        \* the operation that the step just taken ended, and how
  batch             \* << >> or <<the getBatchMetadata call last made>>

appVars == <<http, loading, dashboardApps, dashboardAliased, dashboardError,
             loadingPreviews, formError, lastEnded, batch>>

vars == <<cacheVars, listVars, appVars>>

\* a getUrlMetadata call that nothing in the model subscribes to
NoSubscriber == [op |-> "none"]

\* a getUrlMetadata call: the provider it waits for (pc), the requests sent to
\* the primary and the secondary provider and how they ended, where the result
\* came from, and what the subscriber and the caller received
NewCallFor(sub, url) ==
  [pc |-> "start", url |-> url, sub |-> sub,
   reqP |-> 0, reqS |-> 0, outP |-> "none", outS |-> "none",
   src |-> "none", result |-> Undefined, nexts |-> 0, errors |-> 0,
   thrown |-> FALSE, write |-> "none"]

NewCall(url) == NewCallFor(NoSubscriber, url)

\* -------------------------------------------------------------------- cache
\* Date.now() + (24 * 60 * 60 * 1000)
ExpiresAt(t) == t + TTL

\* (mutant) an entry never expires
IsExpired_never(t, cacheData) == FALSE

\* Date.now() > cacheData.expiresAt
IsExpired(t, cacheData) == t > cacheData.expiresAt

\* (mutant) the expired entry is reported as a miss but left in storage
getCachedMetadata_keep(url, st, t, denied) ==
  LET cached == st[CacheKey(url)]
  IN  IF denied \/ cached = << >> \/ ParseThrows(cached[1]) \/ IsExpired(t, ParseCacheData(cached[1]))
      THEN [ret |-> Null, store |-> st, threw |-> FALSE]
      ELSE [ret |-> Some(ParseCacheData(cached[1]).metadata), store |-> st, threw |-> FALSE]

\* (mutant) no try/catch around the storage read and the parse
getCachedMetadata_nocatch(url, st, t, denied) ==
  LET cacheKey == CacheKey(url)
      cached == st[cacheKey]
  IN  IF denied \/ (cached # << >> /\ ParseThrows(cached[1]))
      THEN [ret |-> Null, store |-> st, threw |-> TRUE]
      ELSE IF cached = << >> THEN [ret |-> Null, store |-> st, threw |-> FALSE]
      ELSE IF IsExpired(t, ParseCacheData(cached[1]))
           THEN [ret |-> Null, store |-> [st EXCEPT ![cacheKey] = << >>], threw |-> FALSE]
           ELSE [ret |-> Some(ParseCacheData(cached[1]).metadata), store |-> st, threw |-> FALSE]

\* getCachedMetadata(url): the value returned, the storage left behind, and
\* whether an exception escaped
getCachedMetadata(url, st, t, denied) ==
  LET cacheKey == CacheKey(url)
      cached == st[cacheKey]
  IN  \* localStorage.getItem throws: caught, return null
      IF denied THEN [ret |-> Null, store |-> st, threw |-> FALSE]
      \* if (!cached) return null
      ELSE IF cached = << >> THEN [ret |-> Null, store |-> st, threw |-> FALSE]
      \* JSON.parse throws: caught, return null
      ELSE IF ParseThrows(cached[1]) THEN [ret |-> Null, store |-> st, threw |-> FALSE]
      ELSE IF IsExpired(t, ParseCacheData(cached[1]))
           THEN [ret |-> Null, store |-> [st EXCEPT ![cacheKey] = << >>], threw |-> FALSE]
           ELSE [ret |-> Some(ParseCacheData(cached[1]).metadata), store |-> st, threw |-> FALSE]

\* (mutant) the result is returned without being stored
cacheMetadata_nowrite(url, metadata, st, t, denied, full) ==
  [store |-> st, ok |-> ~(denied \/ full), threw |-> FALSE]

\* cacheMetadata(url, metadata); full is setItem throwing QuotaExceededError
cacheMetadata(url, metadata, st, t, denied, full) ==
  IF denied \/ full
  THEN [store |-> st, ok |-> FALSE, threw |-> FALSE]
  ELSE [store |-> [st EXCEPT ![CacheKey(url)] =
                     Some(StringifyCacheData(url, metadata, t, ExpiresAt(t)))],
        ok |-> TRUE, threw |-> FALSE]

\* ------------------------------------------------------------------ actions
WatchOff == [on |-> FALSE, w |-> << >>]
WatchOn == [on |-> TRUE, w |-> << >>]

InitProgram ==
  /\ now = 0
  /\ storageDenied \in BOOLEAN
  /\ storage \in [CacheKeys -> {<< >>, Some(CorruptText)}]
  /\ calls = EmptyBag
  /\ lastStarted = << >>
  /\ lastRead = << >>
  /\ lastDelivered = << >>

\* new BehaviorSubject<App[]>([]); the dashboard's filters start empty
NoFilters == [searchTerm |-> << >>, techStack |-> << >>, tags |-> << >>, status |-> << >>]

InitList ==
  /\ apps = << >>
  /\ filters = NoFilters
  /\ filteredApps = << >>
  /\ stats = << >>

\* no request sent yet; DashboardComponent and AppFormComponent as their
\* field initialisers leave them
InitComponents ==
  /\ http = {}
  /\ loading = FALSE
  /\ dashboardApps = << >>
  /\ dashboardAliased = FALSE
  /\ dashboardError = Null
  /\ loadingPreviews = {}
  /\ formError = Null
  /\ lastEnded = << >>
  /\ batch = << >>

Init == InitProgram /\ InitList /\ InitComponents /\ watched = WatchOff

\* the record of a getCachedMetadata(url) call and of what it found in storage
ReadRecord(url, r) ==
  Some([url |-> url, found |-> storage[CacheKey(url)], ret |-> r.ret, threw |-> r.threw])

\* time passes; a watched write is forgotten once its 24 hours are over
Tick ==
  /\ \E t \in Instants : t > now /\ now' = t
  /\ watched' = IF watched.w # << >> /\ now' >= watched.w[1].time + TTL
                THEN [watched EXCEPT !.w = << >>] ELSE watched
  /\ lastStarted' = << >>
  /\ lastRead' = << >>
  /\ lastDelivered' = << >>
  /\ UNCHANGED <<storageDenied, storage, calls>>

\* getCachedMetadata(url) called directly (the dashboard's loadCachedPreviews)
GetCachedMetadata(url) ==
  LET r == getCachedMetadata(url, storage, now, storageDenied)
  IN  /\ storage' = r.store
      /\ lastRead' = ReadRecord(url, r)
      /\ lastStarted' = << >>
      /\ lastDelivered' = << >>
      /\ UNCHANGED <<now, storageDenied, calls, watched>>

\* clearCache(): Object.keys(localStorage) throws when storage is denied
ClearCache ==
  /\ storage' = IF storageDenied THEN storage ELSE [k \in CacheKeys |-> << >>]
  /\ watched' = [watched EXCEPT !.w = << >>]
  /\ lastStarted' = << >>
  /\ lastRead' = << >>
  /\ lastDelivered' = << >>
  /\ UNCHANGED <<now, storageDenied, calls>>

\* (mutant) the cache is never consulted
ConsultsCache_never(force) == FALSE

\* (mutant) the cache is consulted even on a forced refresh
ConsultsCache_always(force) == TRUE

\* if (!forceRefresh): the cache is consulted
ConsultsCache(force) == ~force

\* getUrlMetadata(url, forceRefresh) and the subscription sub to what it
\* returns
GetUrlMetadataFor(sub, url, force) ==
  /\ LET consult == ConsultsCache(force)
         r == getCachedMetadata(url, storage, now, storageDenied)
     IN  /\ lastStarted' = Some([url |-> url, force |-> force])
         /\ lastRead' = IF consult THEN ReadRecord(url, r) ELSE << >>
         /\ storage' = IF consult THEN r.store ELSE storage
         /\ IF consult /\ r.threw
            THEN \* the exception escapes getUrlMetadata: there is no observable
                 /\ lastDelivered' = Some([NewCallFor(sub, url) EXCEPT !.pc = "done", !.thrown = TRUE])
                 /\ UNCHANGED calls
            ELSE IF consult /\ r.ret # Null
            THEN \* return of(cached)
                 /\ lastDelivered' = Some([NewCallFor(sub, url) EXCEPT !.pc = "done", !.src = "cache",
                                                               !.result = r.ret, !.nexts = 1])
                 /\ UNCHANGED calls
            ELSE \* this.getMicrolinkMetadata(url): the primary request goes out
                 /\ calls' = calls (+) SetToBag({[NewCallFor(sub, url) EXCEPT !.pc = "primary", !.reqP = 1]})
                 /\ lastDelivered' = << >>
  /\ UNCHANGED <<now, storageDenied, watched>>

\* getUrlMetadata(url, forceRefresh) called on its own
GetUrlMetadata(url, force) ==
  /\ BagCardinality(calls) < MaxInFlight
  /\ GetUrlMetadataFor(NoSubscriber, url, force)

\* the watched write: the first that succeeds, replaced by a later write for
\* the same URL
Watch(url, metadata) ==
  IF watched.on /\ (watched.w = << >> \/ watched.w[1].url = url)
  THEN [watched EXCEPT !.w = Some([url |-> url, metadata |-> metadata, time |-> now])]
  ELSE watched

\* map(metadata => { this.cacheMetadata(url, metadata); return metadata; })
\* and the notification of the subscriber, which ends the call
CacheAndDeliver(call, metadata, src, full) ==
  LET w == cacheMetadata(call.url, metadata, storage, now, storageDenied, full)
  IN  /\ storage' = w.store
      /\ watched' = IF w.ok THEN Watch(call.url, metadata) ELSE watched
      /\ lastDelivered' = Some(
            IF w.threw
            THEN [call EXCEPT !.pc = "done", !.src = src, !.errors = @ + 1,
                              !.write = "failed"]
            ELSE [call EXCEPT !.pc = "done", !.src = src, !.result = Some(metadata),
                              !.nexts = @ + 1,
                              !.write = IF w.ok THEN "ok" ELSE "failed"])
      /\ lastStarted' = << >>
      /\ lastRead' = << >>
      /\ UNCHANGED <<now, storageDenied>>

\* (mutant) the secondary provider is skipped
OnPrimaryError_skip(call) ==
  /\ calls' = calls (-) SetToBag({call})
  /\ CacheAndDeliver([call EXCEPT !.outP = "fail"], getFallbackMetadata(call.url),
                     "fallback", FALSE)

\* first catchError: return this.getLinkPreviewMetadata(url)
OnPrimaryError(call) ==
  /\ calls' = (calls (-) SetToBag({call})) (+)
              SetToBag({[call EXCEPT !.pc = "secondary", !.outP = "fail", !.reqS = @ + 1]})
  /\ lastStarted' = << >>
  /\ lastRead' = << >>
  /\ lastDelivered' = << >>
  /\ UNCHANGED <<now, storageDenied, storage, watched>>

\* (mutant) no second catchError: the error reaches the subscriber
OnSecondaryError_rethrow(call, full) ==
  /\ calls' = calls (-) SetToBag({call})
  /\ lastDelivered' = Some([call EXCEPT !.pc = "done", !.outS = "fail", !.errors = @ + 1])
  /\ lastStarted' = << >>
  /\ lastRead' = << >>
  /\ UNCHANGED <<now, storageDenied, storage, watched>>

\* second catchError: return of(this.getFallbackMetadata(url))
OnSecondaryError(call, full) ==
  /\ calls' = calls (-) SetToBag({call})
  /\ CacheAndDeliver([call EXCEPT !.outS = "fail"], getFallbackMetadata(call.url),
                     "fallback", full)

\* the Microlink request of a call is answered with a body
PrimaryResponds(call) ==
  /\ call.pc = "primary"
  /\ \E body \in MicrolinkBodies(call.url), full \in BOOLEAN :
       IF TransformThrows(body)
       THEN OnPrimaryError(call)
       ELSE /\ calls' = calls (-) SetToBag({call})
            /\ CacheAndDeliver([call EXCEPT !.outP = "ok"],
                               transformMicrolinkResponse(body), "primary", full)

\* the Microlink request of a call fails (network error, HTTP error status)
PrimaryFails(call) ==
  /\ call.pc = "primary"
  /\ OnPrimaryError(call)

\* the LinkPreview request of a call is answered with a body
SecondaryResponds(call) ==
  /\ call.pc = "secondary"
  /\ \E body \in LinkPreviewBodies(call.url), full \in BOOLEAN :
       IF TransformThrows(body)
       THEN OnSecondaryError(call, full)
       ELSE /\ calls' = calls (-) SetToBag({call})
            /\ CacheAndDeliver([call EXCEPT !.outS = "ok"],
                               transformLinkPreviewResponse(body), "secondary", full)

\* the LinkPreview request of a call fails
SecondaryFails(call) ==
  /\ call.pc = "secondary"
  /\ \E full \in BOOLEAN : OnSecondaryError(call, full)

\* the steps of the metadata service; the app list is not touched by them
Next ==
  \/ Tick /\ UNCHANGED <<listVars, appVars>>
  \/ ClearCache /\ UNCHANGED <<listVars, appVars>>
  \/ \E url \in Urls : GetCachedMetadata(url) /\ UNCHANGED <<listVars, appVars>>
  \/ \E url \in Urls, force \in BOOLEAN : GetUrlMetadata(url, force) /\ UNCHANGED <<listVars, appVars>>
  \/ \E call \in BagToSet(calls) : PrimaryResponds(call) /\ UNCHANGED <<listVars, appVars>>
  \/ \E call \in BagToSet(calls) : PrimaryFails(call) /\ UNCHANGED <<listVars, appVars>>
  \/ \E call \in BagToSet(calls) : SecondaryResponds(call) /\ UNCHANGED <<listVars, appVars>>
  \/ \E call \in BagToSet(calls) : SecondaryFails(call) /\ UNCHANGED <<listVars, appVars>>

Spec == Init /\ [][Next]_vars

\* the same program with the observer of cache writes switched on
InitWatch == InitProgram /\ InitList /\ InitComponents /\ watched = WatchOn

SpecWatch == InitWatch /\ [][Next]_vars

\* ---------------------------------------------------------- the list specs
\* AppService.getFilteredApps(filters) applied to a list
GetFilteredApps(f) ==
  /\ filters' = f
  /\ filteredApps' = getFilteredApps(apps, f)
  /\ UNCHANGED <<apps, stats, cacheVars, appVars>>

InitCacheIdle ==
  /\ now = 0
  /\ storageDenied = FALSE
  /\ storage = [k \in CacheKeys |-> << >>]
  /\ calls = EmptyBag
  /\ lastStarted = << >>
  /\ lastRead = << >>
  /\ lastDelivered = << >>
  /\ watched = WatchOff

\* any list of apps, as subscribers of apps$ first see it
InitFilter ==
  /\ InitCacheIdle
  /\ InitComponents
  /\ apps \in AppLists(MaxListed)
  /\ filters = NoFilters
  /\ filteredApps = apps
  /\ stats = << >>

NextFilter == \E f \in AllFilters : GetFilteredApps(f)

SpecFilter == InitFilter /\ [][NextFilter]_vars
\* ------------------------------------------------------------- statistics
\* the number of apps kept in recentApps
RecentCount == 5

\* apps.filter(app => app.status === status).length
CountStatus(list, status) ==
  LET HasStatus(app) == app.status = status
  IN  Len(SelectSeq(list, HasStatus))

\* the tech-stack usage count built by the two forEach loops
techStackCount(list) ==
  LET uses == UNION {{<<k, j>> : j \in DOMAIN list[k].techStack} : k \in DOMAIN list}
      techs == {list[u[1]].techStack[u[2]] : u \in uses}
  IN  [tech \in techs |-> Cardinality({u \in uses : list[u[1]].techStack[u[2]] = tech})]

\* the place the stable sort gives app among the already sorted apps, under
\* the comparator b.updatedAt.getTime() - a.updatedAt.getTime()
SortInsert(sorted, app) ==
  LET NotAfter(other) == other.updatedAt >= app.updatedAt
      After(other) == other.updatedAt < app.updatedAt
  IN  SelectSeq(sorted, NotAfter) \o <<app>> \o SelectSeq(sorted, After)

RECURSIVE SortByUpdatedAt(_)
\* Array.prototype.sort with that comparator: stable, and in place
SortByUpdatedAt(list) ==
  IF list = << >> THEN << >>
  ELSE SortInsert(SortByUpdatedAt(SubSeq(list, 1, Len(list) - 1)), list[Len(list)])

\* Array.prototype.slice(0, end)
Slice(list, end) == SubSeq(list, 1, IF Len(list) < end THEN Len(list) ELSE end)

\* the in-progress count compares with a status no app has
getDashboardStats_miscount(list) ==
  [totalApps |-> Len(list),
   activeApps |-> CountStatus(list, "active"),
   inProgressApps |-> CountStatus(list, "in_progress"),
   archivedApps |-> CountStatus(list, "archived"),
   techStackCount |-> techStackCount(list),
   recentApps |-> Slice(SortByUpdatedAt(list), RecentCount)]

\* AppService.getDashboardStats: the value it returns
getDashboardStats(list) ==
  [totalApps |-> Len(list),
   activeApps |-> CountStatus(list, "active"),
   inProgressApps |-> CountStatus(list, "in-progress"),
   archivedApps |-> CountStatus(list, "archived"),
   techStackCount |-> techStackCount(list),
   recentApps |-> Slice(SortByUpdatedAt(list), RecentCount)]

\* the recent apps are sliced from the list without sorting it
calculateLocalStats_nosort(list) ==
  [totalApps |-> Len(list),
   activeApps |-> CountStatus(list, "active"),
   inProgressApps |-> CountStatus(list, "in-progress"),
   archivedApps |-> CountStatus(list, "archived"),
   techStackCount |-> techStackCount(list),
   recentApps |-> Slice(list, RecentCount)]

\* DashboardComponent.calculateLocalStats: the value it returns
calculateLocalStats(list) ==
  [totalApps |-> Len(list),
   activeApps |-> CountStatus(list, "active"),
   inProgressApps |-> CountStatus(list, "in-progress"),
   archivedApps |-> CountStatus(list, "archived"),
   techStackCount |-> techStackCount(list),
   recentApps |-> Slice(SortByUpdatedAt(list), RecentCount)]

\* getDashboardStats(): apps is appsSubject.value itself, and sort orders
\* that array in place; the dashboard sees it when its apps is that array
GetDashboardStats ==
  /\ stats' = <<getDashboardStats(apps)>>
  /\ apps' = SortByUpdatedAt(apps)
  /\ dashboardApps' = IF dashboardAliased THEN apps' ELSE dashboardApps
  /\ UNCHANGED <<filters, filteredApps, cacheVars>>
  /\ UNCHANGED <<http, loading, dashboardAliased, dashboardError, loadingPreviews,
                 formError, lastEnded, batch>>

\* ---------------------------------------------------------------- dashboard
\* a step that makes no call to the metadata service
NoCacheStep ==
  /\ lastStarted' = << >>
  /\ lastRead' = << >>
  /\ lastDelivered' = << >>
  /\ UNCHANGED <<now, storageDenied, storage, calls, watched>>

\* metadata.f?.url
UrlOf(metadata, f) ==
  IF Get(metadata, f) = Undefined THEN Undefined ELSE Get(Get(metadata, f)[1], "url")

\* the previewMetadata object built from a MicrolinkData at time t
PreviewMetadataOf(metadata, t) ==
  [title |-> Get(metadata, "title"),
   description |-> Get(metadata, "description"),
   image |-> UrlOf(metadata, "image"),
   logo |-> UrlOf(metadata, "logo"),
   screenshot |-> UrlOf(metadata, "screenshot"),
   author |-> Get(metadata, "author"),
   publisher |-> Get(metadata, "publisher"),
   date |-> Get(metadata, "date"),
   lang |-> Get(metadata, "lang"),
   lastFetched |-> Some(t)]

\* { ...app, previewMetadata: { ... } }
WithPreview(app, metadata, t) ==
  [app EXCEPT !.previewMetadata = Some(PreviewMetadataOf(metadata, t))]

\* !!(app.previewMetadata && (app.previewMetadata.image || app.previewMetadata.screenshot))
hasPreviewMetadata(app) ==
  /\ app.previewMetadata # Undefined
  /\ \/ JsOr(app.previewMetadata[1].image, Undefined) # Undefined
     \/ JsOr(app.previewMetadata[1].screenshot, Undefined) # Undefined

\* list.findIndex(a => a.id === id), with 0 for -1
findIndex(list, id) ==
  LET hits == {k \in DOMAIN list : list[k].id = id}
  IN  IF hits = {} THEN 0 ELSE SetMin(hits)

RECURSIVE loadCachedPreviews(_, _, _, _, _, _)
\* loadCachedPreviews(): the forEach over this.apps from index k on; the list,
\* the storage and the last cache read it leaves
loadCachedPreviews(k, list, st, read, t, denied) ==
  IF k > Len(list) THEN [apps |-> list, store |-> st, read |-> read]
  ELSE LET app == list[k]
       IN  IF app.deployedUrl # << >> /\ ~hasPreviewMetadata(app)
           THEN LET r == getCachedMetadata(app.deployedUrl, st, t, denied)
                    index == findIndex(list, app.id)
                    rec == Some([url |-> app.deployedUrl, found |-> st[CacheKey(app.deployedUrl)],
                                 ret |-> r.ret, threw |-> r.threw])
                IN  loadCachedPreviews(k + 1,
                      IF r.ret # Null /\ index # 0
                      THEN [list EXCEPT ![index] = WithPreview(app, r.ret[1], t)]
                      ELSE list,
                      r.store, rec, t, denied)
           ELSE loadCachedPreviews(k + 1, list, st, read, t, denied)

\* the apps$ subscription of ngOnInit receives list, which is the array
\* appsSubject.value: calculateLocalStats sorts it in place, loadCachedPreviews
\* replaces entries of it and filters it again
OnAppsEmitted(list) ==
  LET loaded == loadCachedPreviews(1, SortByUpdatedAt(list), storage, << >>, now, storageDenied)
  IN  /\ apps' = loaded.apps
      /\ dashboardApps' = loaded.apps
      /\ dashboardAliased' = TRUE
      /\ stats' = <<calculateLocalStats(list)>>
      /\ filteredApps' = getFilteredApps(loaded.apps, filters)
      /\ storage' = loaded.store
      /\ lastRead' = loaded.read
      /\ UNCHANGED filters

\* DashboardComponent.ngOnInit(): apps$ hands the current list to the
\* subscription at once
DashboardNgOnInit ==
  /\ dashboardError' = Null
  /\ OnAppsEmitted(apps)
  /\ lastStarted' = << >>
  /\ lastDelivered' = << >>
  /\ UNCHANGED <<now, storageDenied, calls, watched>>
  /\ UNCHANGED <<http, loading, loadingPreviews, formError, lastEnded, batch>>

InitStats ==
  /\ InitCacheIdle
  /\ InitComponents
  /\ apps \in AppLists(MaxApps)
  /\ filters = NoFilters
  /\ filteredApps = << >>
  /\ stats = << >>

NextStats == GetDashboardStats \/ DashboardNgOnInit

SpecStats == InitStats /\ [][NextStats]_vars

\* the state of the components that a subscriber may leave alone
appState == <<http, loading, dashboardApps, dashboardAliased, dashboardError,
              loadingPreviews, formError>>

\* ------------------------------------------------------------- the app API
\* an app as a response of the API carries it: parsed JSON, whose dates are
\* strings and not Date objects
JsonOf(app) == [f \in DOMAIN app \cup {"json"} |-> IF f = "json" THEN TRUE ELSE app[f]]

IsJson(app) == "json" \in DOMAIN app

\* convertStringDatesToDateObjects(app) at time t: a missing date becomes
\* new Date()
convertStringDatesToDateObjects(app, t) ==
  [f \in (DOMAIN app \ {"json"}) \cup {"createdAt", "updatedAt", "previewMetadata"} |->
     IF f \in {"createdAt", "updatedAt"} THEN (IF f \in DOMAIN app THEN app[f] ELSE t)
     ELSE IF f = "previewMetadata" THEN Get(app, f)
     ELSE app[f]]

\* the app lists that the API answers a list request with
ServerLists ==
  {<< >>, <<JsonOf(AppOf(1))>>, <<JsonOf(AppOf(2)), JsonOf(AppOf(1))>>}

\* the ids that the user acts on
ServerIds == {1, 2}

\* what the form holds when it is submitted: "My", a description, a URL
FormData ==
  [name |-> <<77, 121>>, description |-> "my description", deployedUrl |-> UrlA,
   techStack |-> << >>, tags |-> << >>, status |-> "active"]

\* a request to the app API that waits for its response: the HTTP method, the
\* component whose action led to it, the pipeline that waits for the response,
\* the id and the body sent, the app or form data the pipeline started from,
\* and the getUrlMetadata call whose metadata the body was built from
Request(op, by, cont, id, body, input, call) ==
  [op |-> op, by |-> by, cont |-> cont, id |-> id, body |-> body, input |-> input,
   call |-> call]

RECURSIVE SumCopies(_, _)
\* the number of elements of the bag that are in the set cs
SumCopies(cs, bag) ==
  IF cs = {} THEN 0
  ELSE LET c == CHOOSE x \in cs : TRUE
       IN  CopiesIn(c, bag) + SumCopies(cs \ {c}, bag)

\* the list request of loadApps(); the id of a list request that waits counts
\* the list requests sent after it, up to MaxRequests of them
LoadAppsRequest(by) == Request("list", by, "loadApps", 0, << >>, << >>, << >>)

\* a request that waits, once one more list request has been sent
Older(request) ==
  IF request.op = "list" /\ request.id < MaxRequests THEN [request EXCEPT !.id = @ + 1]
  ELSE request

\* loadApps() while the requests of pending wait: one more list request
IssueLoadApps(pending, by) ==
  LET waiting == BagToSet(pending)
      newest == LoadAppsRequest(by)
  IN  [q \in {Older(r) : r \in waiting} \cup {newest} |->
         IF q = newest THEN 1
         ELSE SumCopies({r \in waiting : Older(r) = q}, pending)]

\* the getUrlMetadata calls of fetchAppPreview that wait for a provider
PreviewCalls == SumCopies({c \in BagToSet(calls) : c.sub.op = "preview"}, calls)

\* the requests and calls of the other operations that wait for an answer
Pending == BagCardinality(http) + (BagCardinality(calls) - PreviewCalls)

\* the comparator reads updatedAt.getTime(): a TypeError when updatedAt is the
\* string of a JSON response; sort calls the comparator when the list has two
\* elements or more
SortThrows(list) == Len(list) > 1 /\ \E k \in DOMAIN list : IsJson(list[k])

\* ---------------------------------------------------- dashboard subscribers
\* fetchAppPreview, next: the entry of this.apps with the id of app is replaced
\* by app with the new previewMetadata, the list is filtered again and
\* updateStats sorts this.apps in place; an exception of updateStats leaves
\* the handler before loadingPreviews.delete
PreviewNext(call) ==
  LET app == call.sub.app
      index == findIndex(dashboardApps, app.id)
      replaced == [dashboardApps EXCEPT ![index] = WithPreview(app, call.result[1], now)]
  IN  /\ IF index = 0
         THEN /\ loadingPreviews' = loadingPreviews \ {app.id}
              /\ UNCHANGED <<dashboardApps, apps, filteredApps, stats>>
         ELSE /\ filteredApps' = getFilteredApps(IF dashboardAliased THEN replaced ELSE apps,
                                                 filters)
              /\ IF SortThrows(replaced)
                 THEN /\ dashboardApps' = replaced
                      /\ UNCHANGED <<stats, loadingPreviews>>
                 ELSE /\ dashboardApps' = SortByUpdatedAt(replaced)
                      /\ stats' = <<calculateLocalStats(replaced)>>
                      /\ loadingPreviews' = loadingPreviews \ {app.id}
              /\ apps' = IF dashboardAliased THEN dashboardApps' ELSE apps
      /\ lastEnded' = Some([op |-> "fetchAppPreview", by |-> "dashboard", failed |-> FALSE,
                            id |-> app.id])
      /\ UNCHANGED <<filters, http, loading, dashboardAliased, dashboardError, formError>>

\* fetchAppPreview, error
PreviewError(call) ==
  /\ loadingPreviews' = loadingPreviews \ {call.sub.app.id}
  /\ lastEnded' = Some([op |-> "fetchAppPreview", by |-> "dashboard", failed |-> TRUE,
                        id |-> call.sub.app.id])
  /\ UNCHANGED <<listVars, http, loading, dashboardApps, dashboardAliased, dashboardError,
                 formError>>

\* getUrlMetadata threw before there was anything to subscribe to: the
\* exception leaves fetchAppPreview after loadingPreviews.add
PreviewThrown(call) ==
  /\ loadingPreviews' = loadingPreviews \cup {call.sub.app.id}
  /\ lastEnded' = << >>
  /\ UNCHANGED <<listVars, http, loading, dashboardApps, dashboardAliased, dashboardError,
                 formError>>

PreviewDelivered(call) ==
  IF call.thrown THEN PreviewThrown(call)
  ELSE IF call.errors > 0 THEN PreviewError(call)
  ELSE PreviewNext(call)

\* --------------------------------------------------------------- validateUrl
\* !!data.title
TitleIsTruthy(metadata) == JsOrChars(Get(metadata, "title"), Undefined) # Undefined

\* map(data => !!data.title), catchError(() => of(false))
ValidateDelivered(call) ==
  /\ lastEnded' = Some([op |-> "validateUrl", by |-> "service", failed |-> call.thrown,
                        url |-> call.url, call |-> call,
                        value |-> IF call.thrown \/ call.errors > 0 THEN FALSE
                                  ELSE TitleIsTruthy(call.result[1])])
  /\ UNCHANGED <<listVars, appState>>

\* ------------------------------------------------------------------- addApp
\* { ...app, imageUrl, name, description, previewMetadata } built from metadata
AppDataWith(app, metadata, t) ==
  [f \in DOMAIN app \cup {"imageUrl", "previewMetadata"} |->
     IF f = "imageUrl" THEN JsOr(UrlOf(metadata, "image"), Undefined)
     ELSE IF f = "name" THEN JsOrChars(Get(metadata, "title"), Some(app.name))[1]
     ELSE IF f = "description" THEN JsOr(Get(metadata, "description"), Some(app.description))[1]
     ELSE IF f = "previewMetadata" THEN Some(PreviewMetadataOf(metadata, t))
     ELSE app[f]]

\* { ...app, imageUrl: undefined, previewMetadata: undefined }
AppDataWithout(app) ==
  [f \in DOMAIN app \cup {"imageUrl", "previewMetadata"} |->
     IF f \in {"imageUrl", "previewMetadata"} THEN Undefined ELSE app[f]]

\* addApp after getUrlMetadata ended: the create request goes out, with the
\* metadata or, from catchError, without it; pending are the requests that
\* wait, error is what AppFormComponent.error holds; loading$ keeps the value
\* it has
AddDelivered(call, pending, error) ==
  LET app == call.sub.app
  IN  /\ IF call.thrown
         THEN \* the exception leaves addApp and onSubmit
              /\ http' = pending
              /\ lastEnded' = Some([op |-> "addApp", by |-> "form", failed |-> TRUE])
         ELSE /\ http' = pending (+) SetToBag({
                   IF call.errors > 0
                   THEN Request("post", "form", "addRetry", 0, Some(AppDataWithout(app)),
                                Some(app), Some(call))
                   ELSE Request("post", "form", "add", 0,
                                Some(AppDataWith(app, call.result[1], now)),
                                Some(app), Some(call))})
              /\ lastEnded' = << >>
      /\ formError' = error
      /\ UNCHANGED <<listVars, dashboardApps, dashboardAliased, dashboardError, loadingPreviews>>

\* ------------------------------------------------------- refreshAppMetadata
\* the updates object built from the metadata and the app
UpdatesOf(app, metadata, t) ==
  [name |-> JsOrChars(Get(metadata, "title"), Some(app.name))[1],
   description |-> JsOr(Get(metadata, "description"), Some(app.description))[1],
   imageUrl |-> JsOr(UrlOf(metadata, "image"), Get(app, "imageUrl")),
   previewMetadata |-> Some(PreviewMetadataOf(metadata, t))]

\* refreshAppMetadata after getUrlMetadata ended: updateApp(id, updates) sends
\* the update; an error goes through catchError to the dashboard
RefreshDelivered(call, pending) ==
  /\ IF call.thrown \/ call.errors > 0
     THEN /\ http' = pending
          /\ loading' = FALSE
          /\ dashboardError' = Some("Failed to refresh metadata. Please try again.")
          /\ lastEnded' = Some([op |-> "refreshAppMetadata", by |-> "dashboard",
                                failed |-> TRUE])
     ELSE /\ http' = pending (+) SetToBag({
               Request("put", "dashboard", "refreshUpdate", call.sub.id,
                       Some(UpdatesOf(call.sub.app, call.result[1], now)),
                       Some(call.sub.app), Some(call))})
          /\ loading' = TRUE
          /\ lastEnded' = << >>
          /\ UNCHANGED dashboardError
  /\ UNCHANGED <<listVars, dashboardApps, dashboardAliased, loadingPreviews, formError>>

\* what the subscriber of a getUrlMetadata call does when the call ends
Subscriber(call) ==
  IF call.sub.op = "preview" THEN PreviewDelivered(call)
  ELSE IF call.sub.op = "validate" THEN ValidateDelivered(call)
  ELSE IF call.sub.op = "add" THEN AddDelivered(call, http, formError) /\ UNCHANGED loading
  ELSE IF call.sub.op = "refresh" THEN RefreshDelivered(call, http)
  ELSE /\ lastEnded' = << >>
       /\ UNCHANGED <<listVars, appState>>

\* the step of the metadata service just taken, seen from its subscriber
Delivered ==
  IF lastDelivered' = << >>
  THEN /\ lastEnded' = << >>
       /\ UNCHANGED <<listVars, appState>>
  ELSE Subscriber(lastDelivered'[1])

\* ------------------------------------------------------- dashboard handlers
\* A handler that sends a request is given max, the number of requests and
\* calls that may be under way once it has run.
\* fetchAppPreview(app, forceRefresh)
FetchAppPreview(app, force) ==
  IF app.id \in loadingPreviews
  THEN \* Preview already loading: return
       /\ NoCacheStep
       /\ lastEnded' = << >>
       /\ UNCHANGED <<listVars, appState>>
  ELSE /\ PreviewCalls < MaxPreviews
       /\ GetUrlMetadataFor([op |-> "preview", app |-> app], app.deployedUrl, force)
       /\ IF lastDelivered' = << >>
          THEN \* the request is out: the id stays in loadingPreviews
               /\ loadingPreviews' = loadingPreviews \cup {app.id}
               /\ lastEnded' = << >>
               /\ UNCHANGED <<listVars, http, loading, dashboardApps, dashboardAliased,
                              dashboardError, formError>>
          ELSE \* the cached value arrives inside subscribe
               PreviewDelivered(lastDelivered'[1])

\* the IntersectionObserver callback for the card of the app at index k
ObservedFetch(k) ==
  /\ ~hasPreviewMetadata(dashboardApps[k])
  /\ FetchAppPreview(dashboardApps[k], FALSE)

\* clearError()
DashboardClearError ==
  /\ dashboardError # Null
  /\ dashboardError' = Null
  /\ lastEnded' = << >>
  /\ NoCacheStep
  /\ UNCHANGED <<listVars, http, loading, dashboardApps, dashboardAliased, loadingPreviews,
                 formError>>

\* importApps(event): the file is read and parsed; on success loadApps()
DashboardImportAppsWithin(max, valid) ==
  /\ NoCacheStep
  /\ IF valid
     THEN /\ Pending < max
          /\ http' = IssueLoadApps(http, "dashboard")
          /\ loading' = TRUE
          /\ lastEnded' = Some([op |-> "importApps", by |-> "dashboard", failed |-> FALSE])
          /\ UNCHANGED dashboardError
     ELSE /\ dashboardError' = Some("Failed to import data. Please check the file format.")
          /\ lastEnded' = Some([op |-> "importApps", by |-> "dashboard", failed |-> TRUE])
          /\ UNCHANGED <<http, loading>>
  /\ UNCHANGED <<listVars, dashboardApps, dashboardAliased, loadingPreviews, formError>>

\* the handler, called while nothing else is under way
DashboardImportApps(valid) == DashboardImportAppsWithin(MaxInFlight, valid)

\* deleteApp(appId), confirmed: AppService.deleteApp sends the request
DashboardDeleteAppWithin(max, appId) ==
  /\ Pending < max
  /\ http' = http (+) SetToBag({Request("delete", "dashboard", "delete", appId,
                                       << >>, << >>, << >>)})
  /\ loading' = TRUE
  /\ lastEnded' = << >>
  /\ NoCacheStep
  /\ UNCHANGED <<listVars, dashboardApps, dashboardAliased, dashboardError, loadingPreviews,
                 formError>>

\* the handler, called while nothing else is under way
DashboardDeleteApp(appId) == DashboardDeleteAppWithin(MaxInFlight, appId)

\* refreshAppMetadata(appId): AppService.refreshAppMetadata starts with
\* getAppById
DashboardRefreshAppMetadataWithin(max, appId) ==
  /\ Pending < max
  /\ http' = http (+) SetToBag({Request("get", "dashboard", "refresh", appId,
                                       << >>, << >>, << >>)})
  /\ loading' = TRUE
  /\ lastEnded' = << >>
  /\ NoCacheStep
  /\ UNCHANGED <<listVars, dashboardApps, dashboardAliased, dashboardError, loadingPreviews,
                 formError>>

\* the handler, called while nothing else is under way
DashboardRefreshAppMetadata(appId) == DashboardRefreshAppMetadataWithin(MaxInFlight, appId)

\* this.applyFilters(); this.updateStats() on this.apps = list: the filtered
\* list is taken from the service, updateStats sorts this.apps in place or
\* throws
ApplyFiltersAndUpdateStats(list) ==
  /\ filteredApps' = getFilteredApps(IF dashboardAliased' THEN list ELSE apps, filters)
  /\ IF SortThrows(list)
     THEN /\ dashboardApps' = list
          /\ UNCHANGED stats
     ELSE /\ dashboardApps' = SortByUpdatedAt(list)
          /\ stats' = <<calculateLocalStats(list)>>
  /\ apps' = IF dashboardAliased' THEN dashboardApps' ELSE apps
  /\ UNCHANGED filters

\* ------------------------------------------------------------ form handlers
\* ngOnInit() of the edit form: getAppById(id)
FormNgOnInitWithin(max, appId) ==
  /\ Pending < max
  /\ http' = http (+) SetToBag({Request("get", "form", "formLoad", appId,
                                       << >>, << >>, << >>)})
  /\ loading' = TRUE
  /\ lastEnded' = << >>
  /\ NoCacheStep
  /\ UNCHANGED <<listVars, dashboardApps, dashboardAliased, dashboardError, loadingPreviews,
                 formError>>

\* the handler, called while nothing else is under way
FormNgOnInit(appId) == FormNgOnInitWithin(MaxInFlight, appId)

\* onSubmit(): updateApp(appId, formData) of the edit form, addApp(formData)
\* of the add form, which starts with getUrlMetadata
FormOnSubmitWithin(max, isEdit, appId, formData) ==
  /\ Pending < max
  /\ IF isEdit
     THEN /\ http' = http (+) SetToBag({Request("put", "form", "update", appId,
                                               Some(formData), Some(formData), << >>)})
          /\ loading' = TRUE
          /\ formError' = Null
          /\ lastEnded' = << >>
          /\ NoCacheStep
          /\ UNCHANGED <<listVars, dashboardApps, dashboardAliased, dashboardError,
                         loadingPreviews>>
     ELSE /\ GetUrlMetadataFor([op |-> "add", app |-> formData], formData.deployedUrl, FALSE)
          /\ IF lastDelivered' = << >>
             THEN /\ loading' = TRUE
                  /\ formError' = Null
                  /\ lastEnded' = << >>
                  /\ UNCHANGED <<listVars, http, dashboardApps, dashboardAliased,
                                 dashboardError, loadingPreviews>>
             ELSE AddDelivered(lastDelivered'[1], http, Null) /\ loading' = TRUE

\* the handler, called while nothing else is under way
FormOnSubmit(isEdit, appId, formData) == FormOnSubmitWithin(MaxInFlight, isEdit, appId, formData)

\* clearError()
FormClearError ==
  /\ formError # Null
  /\ formError' = Null
  /\ lastEnded' = << >>
  /\ NoCacheStep
  /\ UNCHANGED <<listVars, http, loading, dashboardApps, dashboardAliased, dashboardError,
                 loadingPreviews>>

\* MicrolinkService.validateUrl(url)
ValidateUrl(url) ==
  /\ Pending < MaxInFlight
  /\ GetUrlMetadataFor([op |-> "validate"], url, FALSE)
  /\ IF lastDelivered' = << >>
     THEN /\ lastEnded' = << >>
          /\ UNCHANGED <<listVars, appState>>
     ELSE ValidateDelivered(lastDelivered'[1])

\* -------------------------------------------------------- the API responds
\* a step in which a list is emitted makes no call to getUrlMetadata
EmissionStep ==
  /\ lastStarted' = << >>
  /\ lastDelivered' = << >>
  /\ UNCHANGED <<now, storageDenied, calls, watched>>

\* the list request is answered: getApps converts the dates, loadApps hands
\* the list to appsSubject and the dashboard's subscription runs
ListResponds(request) ==
  /\ request.op = "list"
  /\ \E data \in ServerLists :
       OnAppsEmitted([k \in DOMAIN data |-> convertStringDatesToDateObjects(data[k], now)])
  /\ http' = http (-) SetToBag({request})
  /\ loading' = FALSE
  /\ lastEnded' = Some([op |-> "loadApps", by |-> request.by, failed |-> FALSE])
  /\ EmissionStep
  /\ UNCHANGED <<dashboardError, loadingPreviews, formError>>

\* the list request fails: loadApps empties the list
ListFails(request) ==
  /\ request.op = "list"
  /\ OnAppsEmitted(<< >>)
  /\ http' = http (-) SetToBag({request})
  /\ loading' = FALSE
  /\ lastEnded' = Some([op |-> "loadApps", by |-> request.by, failed |-> TRUE])
  /\ EmissionStep
  /\ UNCHANGED <<dashboardError, loadingPreviews, formError>>

\* getAppById is answered, with the app or without data: the form keeps the
\* app; refreshAppMetadata throws 'App not found' or goes on to getUrlMetadata
GetResponds(request) ==
  /\ request.op = "get"
  /\ \E data \in {Undefined, Some(JsonOf(AppOf(request.id)))} :
       IF request.cont = "formLoad"
       THEN /\ http' = http (-) SetToBag({request})
            /\ loading' = FALSE
            /\ lastEnded' = Some([op |-> "getAppById", by |-> "form", failed |-> FALSE])
            /\ NoCacheStep
            /\ UNCHANGED <<listVars, dashboardApps, dashboardAliased, dashboardError,
                           loadingPreviews, formError>>
       ELSE IF data = Undefined
       THEN /\ http' = http (-) SetToBag({request})
            /\ loading' = FALSE
            /\ dashboardError' = Some("Failed to refresh metadata. Please try again.")
            /\ lastEnded' = Some([op |-> "refreshAppMetadata", by |-> "dashboard",
                                  failed |-> TRUE])
            /\ NoCacheStep
            /\ UNCHANGED <<listVars, dashboardApps, dashboardAliased, loadingPreviews,
                           formError>>
       ELSE LET app == convertStringDatesToDateObjects(data[1], now)
            IN  /\ GetUrlMetadataFor([op |-> "refresh", id |-> request.id, app |-> app],
                                     app.deployedUrl, FALSE)
                /\ IF lastDelivered' = << >>
                   THEN /\ http' = http (-) SetToBag({request})
                        /\ loading' = FALSE
                        /\ lastEnded' = << >>
                        /\ UNCHANGED <<listVars, dashboardApps, dashboardAliased,
                                       dashboardError, loadingPreviews, formError>>
                   ELSE RefreshDelivered(lastDelivered'[1], http (-) SetToBag({request}))

\* getAppById fails
GetFails(request) ==
  /\ request.op = "get"
  /\ http' = http (-) SetToBag({request})
  /\ loading' = FALSE
  /\ IF request.cont = "formLoad"
     THEN /\ formError' = Some("Failed to load project details.")
          /\ lastEnded' = Some([op |-> "getAppById", by |-> "form", failed |-> TRUE])
          /\ UNCHANGED dashboardError
     ELSE /\ dashboardError' = Some("Failed to refresh metadata. Please try again.")
          /\ lastEnded' = Some([op |-> "refreshAppMetadata", by |-> "dashboard",
                                failed |-> TRUE])
          /\ UNCHANGED formError
  /\ NoCacheStep
  /\ UNCHANGED <<listVars, dashboardApps, dashboardAliased, loadingPreviews>>

\* the create request is answered: loadApps() and the form's next
PostResponds(request) ==
  /\ request.op = "post"
  /\ http' = IssueLoadApps(http (-) SetToBag({request}), "form")
  /\ loading' = TRUE
  /\ lastEnded' = Some([op |-> "addApp", by |-> "form", failed |-> FALSE])
  /\ NoCacheStep
  /\ UNCHANGED <<listVars, dashboardApps, dashboardAliased, dashboardError, loadingPreviews,
                 formError>>

\* the create request fails: the outer catchError of addApp sends the app
\* again without metadata; when that request fails the error reaches the form
PostFails(request) ==
  /\ request.op = "post"
  /\ IF request.cont = "add"
     THEN /\ http' = (http (-) SetToBag({request})) (+) SetToBag({
                 Request("post", "form", "addRetry", 0,
                         Some(AppDataWithout(request.input[1])), request.input, request.call)})
          /\ lastEnded' = << >>
          /\ UNCHANGED <<loading, formError>>
     ELSE /\ http' = http (-) SetToBag({request})
          /\ loading' = FALSE
          /\ formError' = Some("Failed to create project. Please try again.")
          /\ lastEnded' = Some([op |-> "addApp", by |-> "form", failed |-> TRUE])
  /\ NoCacheStep
  /\ UNCHANGED <<listVars, dashboardApps, dashboardAliased, dashboardError, loadingPreviews>>

\* response.data of an update: the app with the updates, as JSON
UpdatedApp(request) ==
  LET base == request.input[1]
      body == request.body[1]
  IN  JsonOf([f \in DOMAIN base \cup DOMAIN body |->
                IF f \in DOMAIN body THEN body[f] ELSE base[f]])

\* the update request is answered: loadApps(); the form navigates away, the
\* dashboard puts response.data in this.apps, filters and updates the stats
PutResponds(request) ==
  /\ request.op = "put"
  /\ http' = IssueLoadApps(http (-) SetToBag({request}), request.by)
  /\ loading' = TRUE
  /\ IF request.cont = "update"
     THEN /\ lastEnded' = Some([op |-> "updateApp", by |-> "form", failed |-> FALSE])
          /\ UNCHANGED <<listVars, dashboardApps, dashboardAliased>>
     ELSE LET index == findIndex(dashboardApps, request.id)
          IN  /\ lastEnded' = Some([op |-> "refreshAppMetadata", by |-> "dashboard",
                                    failed |-> FALSE])
              /\ UNCHANGED dashboardAliased
              /\ IF index = 0
                 THEN UNCHANGED <<listVars, dashboardApps>>
                 ELSE ApplyFiltersAndUpdateStats(
                        [dashboardApps EXCEPT ![index] = UpdatedApp(request)])
  /\ NoCacheStep
  /\ UNCHANGED <<dashboardError, loadingPreviews, formError>>

\* the update request fails
PutFails(request) ==
  /\ request.op = "put"
  /\ http' = http (-) SetToBag({request})
  /\ loading' = FALSE
  /\ IF request.cont = "update"
     THEN /\ formError' = Some("Failed to update project. Please try again.")
          /\ lastEnded' = Some([op |-> "updateApp", by |-> "form", failed |-> TRUE])
          /\ UNCHANGED dashboardError
     ELSE /\ dashboardError' = Some("Failed to refresh metadata. Please try again.")
          /\ lastEnded' = Some([op |-> "refreshAppMetadata", by |-> "dashboard",
                                failed |-> TRUE])
          /\ UNCHANGED formError
  /\ NoCacheStep
  /\ UNCHANGED <<listVars, dashboardApps, dashboardAliased, loadingPreviews>>

\* the delete request is answered: loadApps(); the dashboard takes the app
\* out of a copy of this.apps, filters and updates the stats
DeleteResponds(request) ==
  /\ request.op = "delete"
  /\ http' = IssueLoadApps(http (-) SetToBag({request}), "dashboard")
  /\ loading' = TRUE
  /\ dashboardAliased' = FALSE
  /\ LET Others(app) == app.id # request.id
     IN  ApplyFiltersAndUpdateStats(SelectSeq(dashboardApps, Others))
  /\ lastEnded' = Some([op |-> "deleteApp", by |-> "dashboard", failed |-> FALSE])
  /\ NoCacheStep
  /\ UNCHANGED <<dashboardError, loadingPreviews, formError>>

\* the delete request fails
DeleteFails(request) ==
  /\ request.op = "delete"
  /\ http' = http (-) SetToBag({request})
  /\ loading' = FALSE
  /\ dashboardError' = Some("Failed to delete project. Please try again.")
  /\ lastEnded' = Some([op |-> "deleteApp", by |-> "dashboard", failed |-> TRUE])
  /\ NoCacheStep
  /\ UNCHANGED <<listVars, dashboardApps, dashboardAliased, loadingPreviews, formError>>

\* --------------------------------------------------------- the application
\* AppService is constructed: loadApps() is out; the dashboard has subscribed
\* and holds the empty list that apps$ starts with
InitApp ==
  /\ InitCacheIdle
  /\ apps = << >>
  /\ filters = NoFilters
  /\ filteredApps = << >>
  /\ stats = <<calculateLocalStats(<< >>)>>
  /\ http = SetToBag({LoadAppsRequest("service")})
  /\ loading = TRUE
  /\ dashboardApps = << >>
  /\ dashboardAliased = TRUE
  /\ dashboardError = Null
  /\ loadingPreviews = {}
  /\ formError = Null
  /\ lastEnded = << >>
  /\ batch = << >>

PrimaryRespondsToApp(call) == PrimaryResponds(call) /\ Delivered
PrimaryFailsToApp(call) == PrimaryFails(call) /\ Delivered
SecondaryRespondsToApp(call) == SecondaryResponds(call) /\ Delivered
SecondaryFailsToApp(call) == SecondaryFails(call) /\ Delivered

NextDashboard ==
  \/ DashboardClearError /\ UNCHANGED batch
  \/ \E valid \in BOOLEAN : DashboardImportApps(valid) /\ UNCHANGED batch
  \/ \E appId \in ServerIds : DashboardDeleteApp(appId) /\ UNCHANGED batch
  \/ \E appId \in ServerIds : DashboardRefreshAppMetadata(appId) /\ UNCHANGED batch
  \/ \E request \in BagToSet(http) : ListResponds(request) /\ UNCHANGED batch
  \/ \E request \in BagToSet(http) : ListFails(request) /\ UNCHANGED batch
  \/ \E request \in BagToSet(http) : GetResponds(request) /\ UNCHANGED batch
  \/ \E request \in BagToSet(http) : GetFails(request) /\ UNCHANGED batch
  \/ \E request \in BagToSet(http) : PutResponds(request) /\ UNCHANGED batch
  \/ \E request \in BagToSet(http) : PutFails(request) /\ UNCHANGED batch
  \/ \E request \in BagToSet(http) : DeleteResponds(request) /\ UNCHANGED batch
  \/ \E request \in BagToSet(http) : DeleteFails(request) /\ UNCHANGED batch
  \/ \E call \in BagToSet(calls) : PrimaryRespondsToApp(call) /\ UNCHANGED batch
  \/ \E call \in BagToSet(calls) : PrimaryFailsToApp(call) /\ UNCHANGED batch
  \/ \E call \in BagToSet(calls) : SecondaryRespondsToApp(call) /\ UNCHANGED batch
  \/ \E call \in BagToSet(calls) : SecondaryFailsToApp(call) /\ UNCHANGED batch

SpecDashboard == InitApp /\ [][NextDashboard]_vars

NextForm ==
  \/ \E appId \in ServerIds : FormNgOnInit(appId) /\ UNCHANGED batch
  \/ \E isEdit \in BOOLEAN, appId \in ServerIds : FormOnSubmit(isEdit, appId, FormData) /\ UNCHANGED batch
  \/ FormClearError /\ UNCHANGED batch
  \/ \E url \in {UrlA} : ValidateUrl(url) /\ UNCHANGED batch
  \/ \E request \in BagToSet(http) : ListResponds(request) /\ UNCHANGED batch
  \/ \E request \in BagToSet(http) : ListFails(request) /\ UNCHANGED batch
  \/ \E request \in BagToSet(http) : GetResponds(request) /\ UNCHANGED batch
  \/ \E request \in BagToSet(http) : GetFails(request) /\ UNCHANGED batch
  \/ \E request \in BagToSet(http) : PostResponds(request) /\ UNCHANGED batch
  \/ \E request \in BagToSet(http) : PostFails(request) /\ UNCHANGED batch
  \/ \E request \in BagToSet(http) : PutResponds(request) /\ UNCHANGED batch
  \/ \E request \in BagToSet(http) : PutFails(request) /\ UNCHANGED batch
  \/ \E call \in BagToSet(calls) : PrimaryRespondsToApp(call) /\ UNCHANGED batch
  \/ \E call \in BagToSet(calls) : PrimaryFailsToApp(call) /\ UNCHANGED batch
  \/ \E call \in BagToSet(calls) : SecondaryRespondsToApp(call) /\ UNCHANGED batch
  \/ \E call \in BagToSet(calls) : SecondaryFailsToApp(call) /\ UNCHANGED batch

NextPreview ==
  \/ \E k \in DOMAIN dashboardApps : ObservedFetch(k) /\ UNCHANGED batch
  \/ \E appId \in ServerIds : DashboardRefreshAppMetadata(appId) /\ UNCHANGED batch
  \/ \E request \in BagToSet(http) : ListResponds(request) /\ UNCHANGED batch
  \/ \E request \in BagToSet(http) : ListFails(request) /\ UNCHANGED batch
  \/ \E request \in BagToSet(http) : GetResponds(request) /\ UNCHANGED batch
  \/ \E request \in BagToSet(http) : GetFails(request) /\ UNCHANGED batch
  \/ \E request \in BagToSet(http) : PutResponds(request) /\ UNCHANGED batch
  \/ \E request \in BagToSet(http) : PutFails(request) /\ UNCHANGED batch
  \/ \E call \in BagToSet(calls) : PrimaryRespondsToApp(call) /\ UNCHANGED batch
  \/ \E call \in BagToSet(calls) : PrimaryFailsToApp(call) /\ UNCHANGED batch
  \/ \E call \in BagToSet(calls) : SecondaryRespondsToApp(call) /\ UNCHANGED batch
  \/ \E call \in BagToSet(calls) : SecondaryFailsToApp(call) /\ UNCHANGED batch

SpecPreview == InitApp /\ [][NextPreview]_vars

SpecForm == InitApp /\ [][NextForm]_vars

\* the operations of AppService with up to MaxRequests of them under way: the
\* form and the dashboard do not wait for each other or for the first load
NextService ==
  \/ \E valid \in {TRUE} : DashboardImportAppsWithin(MaxRequests, valid) /\ UNCHANGED batch
  \/ \E appId \in {1} : DashboardDeleteAppWithin(MaxRequests, appId) /\ UNCHANGED batch
  \/ \E appId \in {1} : DashboardRefreshAppMetadataWithin(MaxRequests, appId) /\ UNCHANGED batch
  \/ \E appId \in {1} : FormNgOnInitWithin(MaxRequests, appId) /\ UNCHANGED batch
  \/ \E isEdit \in BOOLEAN : FormOnSubmitWithin(MaxRequests, isEdit, 1, FormData) /\ UNCHANGED batch
  \/ \E request \in BagToSet(http) : ListResponds(request) /\ UNCHANGED batch
  \/ \E request \in BagToSet(http) : ListFails(request) /\ UNCHANGED batch
  \/ \E request \in BagToSet(http) : GetResponds(request) /\ UNCHANGED batch
  \/ \E request \in BagToSet(http) : GetFails(request) /\ UNCHANGED batch
  \/ \E request \in BagToSet(http) : PostResponds(request) /\ UNCHANGED batch
  \/ \E request \in BagToSet(http) : PostFails(request) /\ UNCHANGED batch
  \/ \E request \in BagToSet(http) : PutResponds(request) /\ UNCHANGED batch
  \/ \E request \in BagToSet(http) : PutFails(request) /\ UNCHANGED batch
  \/ \E request \in BagToSet(http) : DeleteResponds(request) /\ UNCHANGED batch
  \/ \E request \in BagToSet(http) : DeleteFails(request) /\ UNCHANGED batch
  \/ \E call \in BagToSet(calls) : PrimaryRespondsToApp(call) /\ UNCHANGED batch
  \/ \E call \in BagToSet(calls) : PrimaryFailsToApp(call) /\ UNCHANGED batch
  \/ \E call \in BagToSet(calls) : SecondaryRespondsToApp(call) /\ UNCHANGED batch
  \/ \E call \in BagToSet(calls) : SecondaryFailsToApp(call) /\ UNCHANGED batch

SpecService == InitApp /\ [][NextService]_vars


\* --------------------------------------------------------- getBatchMetadata
\* the URL lists given to getBatchMetadata, the empty one included
BatchUrls == {UrlA, UrlC}
BatchLists == UNION {[1..n -> BatchUrls] : n \in 0..MaxBatch}

\* the subscriber of the request at index of the batch
BatchSubscriber(index) == [op |-> "batch", index |-> index]

RECURSIVE SubscribeAll(_, _, _)
\* urls.map(url => this.getUrlMetadata(url)) and requests.forEach(subscribe)
\* from index i on: a cached value arrives inside subscribe, every other
\* request goes out to the primary provider; getCachedMetadata lets no
\* exception out
SubscribeAll(urls, i, acc) ==
  IF i > Len(urls) THEN acc
  ELSE LET r == getCachedMetadata(urls[i], acc.store, now, storageDenied)
       IN  IF ConsultsCache(FALSE) /\ r.ret # Null
           THEN SubscribeAll(urls, i + 1,
                  [acc EXCEPT !.store = r.store, !.results[i] = r.ret, !.completed = @ + 1])
           ELSE SubscribeAll(urls, i + 1,
                  [acc EXCEPT !.store = r.store,
                              !.calls = @ (+) SetToBag({
                                 [NewCallFor(BatchSubscriber(i), urls[i])
                                    EXCEPT !.pc = "primary", !.reqP = 1]})])

\* observer.next(results); observer.complete() run in the handler of a
\* request, when completed === requests.length
EmitsAfter(urls, completed) == Len(urls) > 0 /\ completed = Len(urls)

\* getBatchMetadata(urls), subscribed to: the results array, the counter, and
\* what the observer received
GetBatchMetadata(urls) ==
  /\ calls = EmptyBag
  /\ LET s == SubscribeAll(urls, 1, [store |-> storage, calls |-> EmptyBag,
                                     results |-> [i \in 1..Len(urls) |-> Undefined],
                                     completed |-> 0])
         emits == EmitsAfter(urls, s.completed)
     IN  /\ storage' = s.store
         /\ calls' = s.calls
         /\ batch' = Some([urls |-> urls, results |-> s.results, completed |-> s.completed,
                           nexts |-> IF emits THEN 1 ELSE 0,
                           completes |-> IF emits THEN 1 ELSE 0,
                           emitted |-> IF emits THEN Some(s.results) ELSE Undefined])
  /\ lastStarted' = << >>
  /\ lastRead' = << >>
  /\ lastDelivered' = << >>
  /\ UNCHANGED <<now, storageDenied, watched>>
  /\ UNCHANGED <<listVars, appState, lastEnded>>

\* the next and error handlers of the request at index of the batch; after
\* observer.complete() the observer receives nothing more
BatchDelivered ==
  /\ IF lastDelivered' = << >> \/ batch = << >>
     THEN UNCHANGED batch
     ELSE LET call == lastDelivered'[1]
              b == batch[1]
              index == call.sub.index
              data == IF call.errors > 0 THEN getFallbackMetadata(b.urls[index])
                      ELSE call.result[1]
              results == [b.results EXCEPT ![index] = Some(data)]
              completed == b.completed + 1
              emits == EmitsAfter(b.urls, completed) /\ b.completes = 0
          IN  batch' = Some([b EXCEPT !.results = results, !.completed = completed,
                                      !.nexts = IF emits THEN @ + 1 ELSE @,
                                      !.completes = IF emits THEN 1 ELSE @,
                                      !.emitted = IF emits THEN Some(results) ELSE @])
  /\ UNCHANGED <<listVars, appState, lastEnded>>

InitBatch ==
  /\ InitCacheIdle
  /\ InitList
  /\ InitComponents

NextBatch ==
  \/ \E urls \in BatchLists : GetBatchMetadata(urls)
  \/ \E call \in BagToSet(calls) : PrimaryResponds(call) /\ BatchDelivered
  \/ \E call \in BagToSet(calls) : PrimaryFails(call) /\ BatchDelivered
  \/ \E call \in BagToSet(calls) : SecondaryResponds(call) /\ BatchDelivered
  \/ \E call \in BagToSet(calls) : SecondaryFails(call) /\ BatchDelivered

SpecBatch == InitBatch /\ [][NextBatch]_vars

\* ------------------------------------------------------------------- claims
\* the item is a string that parses to a cache entry
IsEntry(item) == item # << >> /\ ~ParseThrows(item[1])

\* the sources of a result other than the cache
Chain == {"primary", "secondary", "fallback"}

\* the calls that wait for a provider and the call that just ended
AllCalls == BagToSet(calls) \cup {lastDelivered[i] : i \in DOMAIN lastDelivered}

\* C1: after cacheMetadata(u, m) succeeded at time t, with no later write for u
\* and no clearCache, a getCachedMetadata(u) at a time in [t, t + 24h) returns m.
C1_ReadReturnsLastWrite ==
  (/\ lastRead # << >>
   /\ watched.w # << >>
   /\ lastRead[1].url = watched.w[1].url
   /\ watched.w[1].time <= now
   /\ now < watched.w[1].time + TTL)
  => /\ lastRead[1].ret # Null
     /\ SameMetadata(lastRead[1].ret[1], watched.w[1].metadata)

\* C2: an entry written more than 24 hours before the read is a miss for
\* getCachedMetadata, and a non-forced getUrlMetadata then sends the primary
\* request instead of answering with the entry.
C2_OldEntryIsAbsent ==
  (/\ lastRead # << >>
   /\ IsEntry(lastRead[1].found)
   /\ now > lastRead[1].found[1].timestamp + TTL)
  => /\ lastRead[1].ret = Null
     /\ lastStarted # << >> =>
          /\ lastDelivered = << >>
          /\ \E call \in BagToSet(calls) :
               call.url = lastStarted[1].url /\ call.pc = "primary" /\ call.reqP = 1

C2_Witness ==
  /\ lastRead # << >>
  /\ lastStarted # << >>
  /\ IsEntry(lastRead[1].found)
  /\ now > lastRead[1].found[1].timestamp + TTL
  /\ lastDelivered = << >>

\* C3: getCachedMetadata treats a stored entry as valid if and only if the
\* current time is strictly less than its expiry instant; a read at exactly
\* the expiry instant is a miss.
C3_ValidIffBeforeExpiry ==
  (lastRead # << >> /\ IsEntry(lastRead[1].found))
  => (lastRead[1].ret # Null <=> now < lastRead[1].found[1].expiresAt)

\* C4: a getCachedMetadata(u) that finds an expired entry removes it and
\* returns a miss, so that no item is left under u's key; one that finds a
\* valid entry or no entry leaves storage as it was.
C4_ReadStep ==
  lastRead' # << >> =>
    LET rd == lastRead'[1]
    IN  IF IsEntry(rd.found) /\ now > rd.found[1].expiresAt
        THEN /\ rd.ret = Null
             /\ storage' = [storage EXCEPT ![CacheKey(rd.url)] = << >>]
        ELSE storage' = storage

C4_EvictOnRead == [][C4_ReadStep]_vars

C4_Witness ==
  /\ lastRead # << >>
  /\ IsEntry(lastRead[1].found)
  /\ now > lastRead[1].found[1].expiresAt
  /\ storage[CacheKey(lastRead[1].url)] = << >>

\* C5: a non-forced getUrlMetadata(u) that has a valid cache entry for u
\* delivers exactly the cached metadata and sends no request to the primary
\* or the secondary provider.
C5_StartStep ==
  LET item == storage[CacheKey(lastStarted'[1].url)]
  IN  (/\ lastStarted' # << >>
       /\ ~lastStarted'[1].force
       /\ IsEntry(item)
       /\ now < ParseCacheData(item[1]).expiresAt)
      => /\ calls' = calls
         /\ lastDelivered' # << >>
         /\ lastDelivered'[1].src = "cache"
         /\ lastDelivered'[1].nexts = 1
         /\ lastDelivered'[1].result = Some(ParseCacheData(item[1]).metadata)
         /\ lastDelivered'[1].reqP = 0
         /\ lastDelivered'[1].reqS = 0

C5_CacheHitSendsNothing == [][C5_StartStep]_vars

C5_Witness ==
  /\ lastStarted # << >>
  /\ ~lastStarted[1].force
  /\ lastRead # << >>
  /\ IsEntry(lastRead[1].found)
  /\ now < lastRead[1].found[1].expiresAt
  /\ now > lastRead[1].found[1].timestamp
  /\ lastDelivered # << >>

\* C6: in a getUrlMetadata call that misses the cache or is forced, the primary
\* provider is requested first; the secondary provider is requested only after
\* the primary request failed, never after it succeeded; the fallback is
\* synthesized only after both requests failed; each provider is requested at
\* most once.  (A request whose body cannot be transformed counts as failed.)
C6_FallbackChainOrder ==
  \A call \in AllCalls :
    /\ call.reqP <= 1 /\ call.reqS <= 1
    /\ call.pc \in {"primary", "secondary"} => call.reqP = 1
    /\ call.pc = "primary" => call.reqS = 0 /\ call.outP = "none"
    /\ call.reqS > 0 => call.reqP = 1 /\ call.outP = "fail"
    /\ call.outP = "ok" => call.reqS = 0 /\ call.src = "primary"
    /\ call.src = "primary" => call.reqP = 1 /\ call.outP = "ok"
    /\ call.src = "secondary" => call.reqS = 1 /\ call.outP = "fail" /\ call.outS = "ok"
    /\ call.src = "fallback" =>
         call.reqP = 1 /\ call.reqS = 1 /\ call.outP = "fail" /\ call.outS = "fail"

C6_Witness ==
  /\ lastDelivered # << >>
  /\ lastDelivered[1].src = "fallback"
  /\ lastDelivered[1].reqP = 1
  /\ lastDelivered[1].reqS = 1

\* the cache holds metadata m for url, written now
CacheHolds(url, m) ==
  LET item == storage[CacheKey(url)]
  IN  /\ IsEntry(item)
      /\ SameMetadata(ParseCacheData(item[1]).metadata, m)
      /\ ParseCacheData(item[1]).timestamp = now
      /\ ParseCacheData(item[1]).expiresAt = now + TTL

\* C7 (as stated): whenever getUrlMetadata delivers a result that came from the
\* primary provider, the secondary provider or the fallback, the cache already
\* holds that result for u, with expiry = write time + 24h.
C7_DeliveredIsCached ==
  (lastDelivered # << >> /\ lastDelivered[1].src \in Chain)
  => CacheHolds(lastDelivered[1].url, lastDelivered[1].result[1])

\* C7 (amended): the same, unless the storage write threw (storage denied or
\* over quota), in which case the result is delivered all the same.
C7_DeliveredIsCachedUnlessWriteFailed ==
  (lastDelivered # << >> /\ lastDelivered[1].src \in Chain)
  => /\ lastDelivered[1].result # Undefined
     /\ lastDelivered[1].write \in {"ok", "failed"}
     /\ lastDelivered[1].write = "ok" =>
          CacheHolds(lastDelivered[1].url, lastDelivered[1].result[1])

C7_Witness ==
  /\ lastDelivered # << >>
  /\ lastDelivered[1].src = "fallback"
  /\ lastDelivered[1].write = "ok"
  /\ CacheHolds(lastDelivered[1].url, lastDelivered[1].result[1])

\* C8: getUrlMetadata never surfaces an error: whatever the URL, the force flag
\* and the outcomes of the two providers, a call that ends has delivered
\* exactly one metadata value and no error, and a call that waits for a
\* provider has delivered nothing yet.
C8_OneValueNoError ==
  /\ \A call \in BagToSet(calls) : call.nexts = 0 /\ call.errors = 0 /\ ~call.thrown
  /\ lastDelivered # << >> =>
       /\ lastDelivered[1].nexts = 1
       /\ lastDelivered[1].errors = 0
       /\ ~lastDelivered[1].thrown
       /\ lastDelivered[1].result # Undefined

C8_Witness ==
  /\ lastDelivered # << >>
  /\ lastDelivered[1].outP = "fail"
  /\ lastDelivered[1].outS = "fail"
  /\ lastDelivered[1].nexts = 1

\* C9: a forced getUrlMetadata(u) never answers from the cache: even with a
\* valid entry for u it sends the primary request, and what it delivers comes
\* from the provider/fallback chain.
C9_ForceBypassesCache ==
  /\ (lastStarted # << >> /\ lastStarted[1].force) =>
       /\ lastDelivered = << >>
       /\ \E call \in BagToSet(calls) :
            call.url = lastStarted[1].url /\ call.pc = "primary" /\ call.reqP = 1
  /\ (lastDelivered # << >> /\ lastDelivered[1].reqP > 0) => lastDelivered[1].src \in Chain

C9_Witness ==
  /\ lastStarted # << >>
  /\ lastStarted[1].force
  /\ IsEntry(storage[CacheKey(lastStarted[1].url)])
  /\ storage[CacheKey(lastStarted[1].url)][1].url = lastStarted[1].url
  /\ now < storage[CacheKey(lastStarted[1].url)][1].expiresAt

\* C10: cache storage failures never propagate: when the storage read or the
\* parse fails, getCachedMetadata returns null without throwing; when the
\* storage write fails, cacheMetadata does not throw and getUrlMetadata still
\* delivers the fetched metadata.
C10_StorageFailuresSwallowed ==
  /\ lastRead # << >> =>
       /\ ~lastRead[1].threw
       /\ (storageDenied \/ (lastRead[1].found # << >> /\ ParseThrows(lastRead[1].found[1])))
            => lastRead[1].ret = Null
  /\ lastDelivered # << >> =>
       /\ ~lastDelivered[1].thrown
       /\ lastDelivered[1].write = "failed" =>
            /\ lastDelivered[1].errors = 0
            /\ lastDelivered[1].nexts = 1
            /\ lastDelivered[1].result # Undefined

C10_Witness ==
  /\ lastRead # << >>
  /\ lastStarted # << >>
  /\ lastRead[1].found # << >>
  /\ ParseThrows(lastRead[1].found[1])
  /\ lastRead[1].ret = Null

\* a and b are the same character up to the case of an ASCII letter
SameLetter(a, b) ==
  \/ a = b
  \/ a \in 65..90 /\ b = a + 32
  \/ b \in 65..90 /\ a = b + 32

\* term occurs in s when the case of letters is ignored
ContainsIgnoringCase(s, term) ==
  \E i \in 0..(Len(s) - Len(term)) : \A j \in 1..Len(term) : SameLetter(s[i + j], term[j])

\* C11: with a non-empty status set S, every app returned by getFilteredApps
\* has its status in S, and when the other criteria are empty every app of the
\* list whose status is in S is returned.
C11_StatusFilter ==
  Len(filters.status) > 0 =>
    /\ \A k \in DOMAIN filteredApps :
         \E j \in DOMAIN filters.status : filters.status[j] = filteredApps[k].status
    /\ (filters.searchTerm = << >> /\ filters.techStack = << >> /\ filters.tags = << >>) =>
         \A k \in DOMAIN apps :
           (\E j \in DOMAIN filters.status : filters.status[j] = apps[k].status)
             => \E n \in DOMAIN filteredApps : filteredApps[n] = apps[k]

C11_Witness ==
  /\ Len(filters.status) > 0
  /\ filters.searchTerm = << >> /\ filters.techStack = << >> /\ filters.tags = << >>
  /\ Len(filteredApps) > 0
  /\ Len(filteredApps) < Len(apps)

\* the apps that the search term selects, by the words of the claim
SearchSelects(app, term) ==
  \/ ContainsIgnoringCase(app.name, term)
  \/ ContainsIgnoringCase(app.description, term)
  \/ \E k \in DOMAIN app.techStack : ContainsIgnoringCase(app.techStack[k], term)
  \/ \E k \in DOMAIN app.tags : ContainsIgnoringCase(app.tags[k], term)

\* C15: with a non-empty search term and the other criteria empty,
\* getFilteredApps returns exactly the apps in which the term occurs, case
\* ignored, in the name, the description, a tech-stack entry or a tag; with
\* all criteria empty it returns every app, in the order of the list.
C15_SearchFilter ==
  (filters.techStack = << >> /\ filters.tags = << >> /\ filters.status = << >>) =>
    IF filters.searchTerm = << >>
    THEN filteredApps = apps
    ELSE LET Selected(app) == SearchSelects(app, filters.searchTerm)
         IN  filteredApps = SelectSeq(apps, Selected)

C15_Witness ==
  /\ filters.techStack = << >> /\ filters.tags = << >> /\ filters.status = << >>
  /\ filters.searchTerm # << >>
  /\ Len(filteredApps) > 0
  /\ Len(filteredApps) < Len(apps)
  /\ \A k \in DOMAIN filteredApps :
       /\ ~ContainsIgnoringCase(filteredApps[k].name, filters.searchTerm)
       /\ ~ContainsIgnoringCase(filteredApps[k].description, filters.searchTerm)

C13_StatsLeaveListUnchanged == [][apps' = apps]_vars

\* C14: for a list of n apps recentApps has exactly min(5, n) apps, is
\* ordered by updatedAt descending, and every app in it has updatedAt greater
\* than or equal to that of every app not in it.
C14_RecentApps ==
  stats # << >> =>
    LET recent == stats[1].recentApps
        n == Len(apps)
    IN  /\ Len(recent) = IF n < 5 THEN n ELSE 5
        /\ \A k \in DOMAIN recent : \E j \in DOMAIN apps : apps[j] = recent[k]
        /\ \A j, k \in DOMAIN recent : j # k => recent[j] # recent[k]
        /\ \A j, k \in DOMAIN recent : j < k => recent[j].updatedAt >= recent[k].updatedAt
        /\ \A j \in DOMAIN apps :
             (\A k \in DOMAIN recent : recent[k] # apps[j])
               => \A k \in DOMAIN recent : recent[k].updatedAt >= apps[j].updatedAt

C14_Witness ==
  /\ stats # << >>
  /\ Len(apps) > 5
  /\ Len(stats[1].recentApps) = 5
  /\ \E j \in DOMAIN apps : \A k \in DOMAIN stats[1].recentApps : stats[1].recentApps[k] # apps[j]

\* the number of requests of fetchAppPreview for the app id that are in flight
PreviewsInFlight(bag, id) ==
  SumCopies({call \in BagToSet(bag) : call.sub.op = "preview" /\ call.sub.app.id = id}, bag)

\* at most one request of fetchAppPreview per app id is in flight
C16_OneInFlight == \A id \in ServerIds : PreviewsInFlight(calls, id) <= 1

\* no step starts a request for an id that is in loadingPreviews, and the step
\* that completes a request, with success or with error, removes its id
C16_Step ==
  /\ \A id \in loadingPreviews : PreviewsInFlight(calls', id) <= PreviewsInFlight(calls, id)
  /\ lastEnded' # << >> /\ lastEnded'[1].op = "fetchAppPreview"
       => lastEnded'[1].id \notin loadingPreviews'

\* C16: for every app id at most one metadata request started by
\* fetchAppPreview is in flight at any time; a fetchAppPreview call, forced or
\* not, for an id in loadingPreviews starts no request; the id is removed from
\* loadingPreviews when its request completes with success or with error.
C16_InFlightDedup == []C16_OneInFlight /\ [][C16_Step]_vars

\* the operations whose failure the components report
ReportedOperations ==
  {"loadApps", "getAppById", "addApp", "updateApp", "deleteApp", "refreshAppMetadata",
   "importApps"}

\* C17: every failure of a request started by the dashboard or the form
\* (loading the app list, loading one app, create, update, delete, metadata
\* refresh, file import) ends with the error string of the initiating
\* component set to a non-null message.
C17_FailureSetsError ==
  (lastEnded # << >> /\ lastEnded[1].failed /\ lastEnded[1].op \in ReportedOperations) =>
    /\ lastEnded[1].by = "dashboard" => dashboardError # Null
    /\ lastEnded[1].by = "form" => formError # Null

\* C18: refreshAppMetadata(id) obtains the metadata it sends in the update by
\* contacting a metadata provider for the deployed URL of the app, not by
\* reusing a cache entry stored earlier.
C18_RefreshContactsProvider ==
  \A request \in BagToSet(http) :
    request.cont = "refreshUpdate" =>
      /\ request.call[1].src # "cache"
      /\ request.call[1].reqP > 0

\* C19: when both providers fail for the deployed URL during addApp, the
\* create request carries the name and the description that the user gave,
\* unchanged, and has imageUrl and previewMetadata undefined.
C19_CreatedWithoutMetadata ==
  \A request \in BagToSet(http) :
    (request.op = "post" /\ request.call[1].outP = "fail" /\ request.call[1].outS = "fail") =>
      /\ request.body[1].name = request.input[1].name
      /\ request.body[1].description = request.input[1].description
      /\ request.body[1].imageUrl = Undefined
      /\ request.body[1].previewMetadata = Undefined

\* C20: validateUrl(u) emits false when both metadata providers fail for u
\* and there is no cached entry, and emits true only when metadata with a
\* title was obtained for u from a provider.
C20_ValidateUrl ==
  (lastEnded # << >> /\ lastEnded[1].op = "validateUrl") =>
    /\ (lastEnded[1].call.outP = "fail" /\ lastEnded[1].call.outS = "fail")
         => lastEnded[1].value = FALSE
    /\ lastEnded[1].value = TRUE
         => /\ lastEnded[1].call.src \in {"primary", "secondary", "cache"}
            /\ TitleIsTruthy(lastEnded[1].call.result[1])

\* C21: cache isolation between URLs: what getCachedMetadata(u) returns was
\* written by cacheMetadata for the same URL u, never by a write for another
\* URL (the entry found under u's key records u as its url).
C21_CacheIsolation ==
  (lastRead # << >> /\ lastRead[1].ret # Null)
  => ParseCacheData(lastRead[1].found[1]).url = lastRead[1].url

\* C22: under any interleaving of the operations of AppService, whenever
\* loading$ holds false no request of AppService to the app API is in flight.
C22_IdleWhenNotLoading == loading = FALSE => http = EmptyBag

\* the list requests that wait
ListRequests(bag) == {r \in BagToSet(bag) : r.op = "list"}

\* C23: a response to an earlier list load that arrives after the response to
\* a newer one never replaces it: a list request whose response is handed to
\* apps$ has had no list request sent after it answered before, so that with
\* no list load in flight apps$ shows the most recently issued load.
C23_Step ==
  \A r \in ListRequests(http) :
    (lastEnded' # << >> /\ lastEnded'[1].op = "loadApps" /\ CopiesIn(r, http') < CopiesIn(r, http))
    => Cardinality({q \in ListRequests(http) : q.id < r.id}) = r.id

C23_NewestLoadWins == [][C23_Step]_vars

\* the create requests that wait
PostRequests(bag) == {r \in BagToSet(bag) : r.op = "post"}

\* C24: each addApp call sends at most one create request: the step that ends
\* a create request of an addApp call, answered or failed, sends no other one.
C24_Step ==
  (\E r \in PostRequests(http) : CopiesIn(r, http') < CopiesIn(r, http))
  => \A q \in PostRequests(http') : CopiesIn(q, http') <= CopiesIn(q, http)

C24_OnePost == [][C24_Step]_vars

\* C25: getBatchMetadata(urls), for every list of URLs, the empty list
\* included, emits exactly one array and completes: once no request of the
\* batch waits, the observer has received one array, of the length of urls,
\* whose i-th element is the metadata for urls[i], and one completion.
C25_BatchEmitsOnce ==
  (batch # << >> /\ calls = EmptyBag)
  => LET b == batch[1]
     IN  /\ b.nexts = 1
         /\ b.completes = 1
         /\ Len(b.emitted[1]) = Len(b.urls)
         /\ \A i \in DOMAIN b.urls :
              /\ b.emitted[1][i] # Undefined
              /\ Get(b.emitted[1][i][1], "url") = Some(b.urls[i])

\* the ids of the entries of a list
IdsOf(list) == {list[k].id : k \in DOMAIN list}

\* the entry of the list with the id
EntryOf(list, id) == list[findIndex(list, id)]

\* the two entries differ in previewMetadata at most
SameButPreview(a, b) ==
  /\ DOMAIN a \ {"previewMetadata"} = DOMAIN b \ {"previewMetadata"}
  /\ \A f \in DOMAIN a \ {"previewMetadata"} : a[f] = b[f]

\* C26: the completion of a preview fetch started by fetchAppPreview(app)
\* changes only the previewMetadata of the list entry with the id of app:
\* every other field of that entry keeps the value it has in the list when the
\* fetch completes, and no other entry changes.
C26_Step ==
  (lastEnded' # << >> /\ lastEnded'[1].op = "fetchAppPreview")
  => /\ IdsOf(dashboardApps') = IdsOf(dashboardApps)
     /\ \A id \in IdsOf(dashboardApps) :
          IF id = lastEnded'[1].id
          THEN SameButPreview(EntryOf(dashboardApps', id), EntryOf(dashboardApps, id))
          ELSE EntryOf(dashboardApps', id) = EntryOf(dashboardApps, id)

C26_PreviewFrame == [][C26_Step]_vars

====
